---- MODULE Spec2Model ----
(***************************************************************************)
(* Model of the script-to-image pipeline of App.tsx (handleGenerate), the  *)
(* Gemini service (generatePrompts, analyzeImageStyle, generateImage) and  *)
(* the Stability service (generateImageWithStability).                     *)
(*                                                                         *)
(* Text is a sequence of one-character strings.  A message that the code   *)
(* inspects with includes()/startsWith() is a sequence of fragments: the   *)
(* fragments the code looks for are fragments of their own.  A missing     *)
(* (null / undefined / empty) message is <<>> and a missing base64 payload *)
(* is "": the code only ever tests them for truthiness.                    *)
(***************************************************************************)
EXTENDS Integers, Sequences, FiniteSets, TLC

(***************************************************************************)
(* Bounds of the model.                                                    *)
(***************************************************************************)
MaxPrompts == 2
MaxRuns == 2
MaxEdits == 3
MaxLines == 3

(***************************************************************************)
(* types.ts                                                                *)
(***************************************************************************)
IDLE == "IDLE"
GENERATING_PROMPTS == "GENERATING_PROMPTS"
GENERATING_IMAGES == "GENERATING_IMAGES"
DONE == "DONE"
AppState == {IDLE, GENERATING_PROMPTS, GENERATING_IMAGES, DONE}

ASPECT_RATIOS == <<"16:9", "9:16", "4:3", "3:4", "1:1">>

(***************************************************************************)
(* String primitives of the JavaScript runtime, on sequences of characters *)
(***************************************************************************)
NL == "\n"
WhiteSpace == {" ", NL, "\t"}
Digits == {"0", "1", "2", "3", "4", "5", "6", "7", "8", "9"}

DigitVal(c) ==
    CASE c = "0" -> 0 [] c = "1" -> 1 [] c = "2" -> 2 [] c = "3" -> 3
      [] c = "4" -> 4 [] c = "5" -> 5 [] c = "6" -> 6 [] c = "7" -> 7
      [] c = "8" -> 8 [] c = "9" -> 9

RECURSIVE trimStart(_)
trimStart(s) ==
    IF s # <<>> /\ Head(s) \in WhiteSpace THEN trimStart(Tail(s)) ELSE s

RECURSIVE trimEnd(_)
trimEnd(s) ==
    IF s # <<>> /\ s[Len(s)] \in WhiteSpace
    THEN trimEnd(SubSeq(s, 1, Len(s) - 1))
    ELSE s

trim(s) == trimEnd(trimStart(s))

\* String.prototype.split('\n'): the pieces between the newlines.
RECURSIVE splitLines(_, _, _)
splitLines(s, cur, acc) ==
    IF s = <<>> THEN Append(acc, cur)
    ELSE IF Head(s) = NL THEN splitLines(Tail(s), <<>>, Append(acc, cur))
    ELSE splitLines(Tail(s), Append(cur, Head(s)), acc)

split(s) == splitLines(s, <<>>, <<>>)

\* parseInt(digits, 10) on a non-empty run of decimal digits.
RECURSIVE parseInt(_)
parseInt(d) ==
    IF d = <<>> THEN 0
    ELSE 10 * parseInt(SubSeq(d, 1, Len(d) - 1)) + DigitVal(d[Len(d)])

\* Length of the longest prefix of s made of decimal digits: (\d+) is greedy.
RECURSIVE digitPrefix(_)
digitPrefix(s) ==
    IF s # <<>> /\ Head(s) \in Digits THEN 1 + digitPrefix(Tail(s)) ELSE 0

\* trimmedLine.match(/^(\d+)\.\s*(.*)$/): <<>> when the line does not match,
\* otherwise <<match[1], match[2]>>.  \s* is greedy and (.*) takes the rest
\* of the line (a line holds no newline after split).
match(line) ==
    LET k == digitPrefix(line) IN
    IF k >= 1 /\ Len(line) > k /\ line[k + 1] = "."
    THEN << SubSeq(line, 1, k), trimStart(SubSeq(line, k + 2, Len(line))) >>
    ELSE <<>>

\* String.prototype.includes / startsWith on a message made of fragments:
\* pat is the sequence of fragments looked for.
includes(msg, pat) ==
    \E n \in 0..(Len(msg) - Len(pat)) : SubSeq(msg, n + 1, n + Len(pat)) = pat

startsWith(msg, pat) ==
    Len(msg) >= Len(pat) /\ SubSeq(msg, 1, Len(pat)) = pat

(***************************************************************************)
(* The custom-prompt parser of handleGenerate.  currentPrompt is <<>> for  *)
(* null and <<p>> for the prompt being built.                              *)
(***************************************************************************)
FlushPrompt(parsedPrompts, currentPrompt) ==
    IF currentPrompt # <<>>
    THEN Append(parsedPrompts,
                [index |-> currentPrompt[1].index,
                 text |-> trim(currentPrompt[1].text)])
    ELSE parsedPrompts

\* Variant: blank lines are appended to the current prompt as well.
RECURSIVE parseLines_AppendsBlankLines(_, _, _)
parseLines_AppendsBlankLines(lines, parsedPrompts, currentPrompt) ==
    IF lines = <<>> THEN FlushPrompt(parsedPrompts, currentPrompt)
    ELSE LET trimmedLine == trim(Head(lines))
             m == match(trimmedLine)
         IN IF m # <<>>
            THEN parseLines_AppendsBlankLines(Tail(lines),
                            FlushPrompt(parsedPrompts, currentPrompt),
                            << [index |-> parseInt(m[1]), text |-> trim(m[2])] >>)
            ELSE IF currentPrompt # <<>>
            THEN parseLines_AppendsBlankLines(Tail(lines), parsedPrompts,
                            << [index |-> currentPrompt[1].index,
                                text |-> currentPrompt[1].text \o <<NL>> \o trimmedLine] >>)
            ELSE parseLines_AppendsBlankLines(Tail(lines), parsedPrompts, currentPrompt)

\* Variant: the prompt being built at the end of the input is not flushed.
RECURSIVE parseLines_NoFinalFlush(_, _, _)
parseLines_NoFinalFlush(lines, parsedPrompts, currentPrompt) ==
    IF lines = <<>> THEN parsedPrompts
    ELSE LET trimmedLine == trim(Head(lines))
             m == match(trimmedLine)
         IN IF m # <<>>
            THEN parseLines_NoFinalFlush(Tail(lines),
                            FlushPrompt(parsedPrompts, currentPrompt),
                            << [index |-> parseInt(m[1]), text |-> trim(m[2])] >>)
            ELSE IF currentPrompt # <<>> /\ trimmedLine # <<>>
            THEN parseLines_NoFinalFlush(Tail(lines), parsedPrompts,
                            << [index |-> currentPrompt[1].index,
                                text |-> currentPrompt[1].text \o <<NL>> \o trimmedLine] >>)
            ELSE parseLines_NoFinalFlush(Tail(lines), parsedPrompts, currentPrompt)

RECURSIVE parseLines(_, _, _)
parseLines(lines, parsedPrompts, currentPrompt) ==
    IF lines = <<>> THEN FlushPrompt(parsedPrompts, currentPrompt)
    ELSE LET trimmedLine == trim(Head(lines))
             m == match(trimmedLine)
         IN IF m # <<>>
            THEN parseLines(Tail(lines),
                            FlushPrompt(parsedPrompts, currentPrompt),
                            << [index |-> parseInt(m[1]), text |-> trim(m[2])] >>)
            ELSE IF currentPrompt # <<>> /\ trimmedLine # <<>>
            THEN parseLines(Tail(lines), parsedPrompts,
                            << [index |-> currentPrompt[1].index,
                                text |-> currentPrompt[1].text \o <<NL>> \o trimmedLine] >>)
            ELSE parseLines(Tail(lines), parsedPrompts, currentPrompt)

parsePrompts(customPrompts) == parseLines(split(trim(customPrompts)), <<>>, <<>>)

\* Variant: a prompt is placed before the prompts of equal index.
RECURSIVE insertByIndex_Unstable(_, _)
insertByIndex_Unstable(sorted, p) ==
    IF sorted = <<>> THEN <<p>>
    ELSE IF sorted[Len(sorted)].index < p.index THEN Append(sorted, p)
    ELSE Append(insertByIndex_Unstable(SubSeq(sorted, 1, Len(sorted) - 1), p),
                sorted[Len(sorted)])

\* Variant: the comparison is reversed, (a, b) => b.index - a.index.
RECURSIVE insertByIndex_Descending(_, _)
insertByIndex_Descending(sorted, p) ==
    IF sorted = <<>> THEN <<p>>
    ELSE IF sorted[Len(sorted)].index >= p.index THEN Append(sorted, p)
    ELSE Append(insertByIndex_Descending(SubSeq(sorted, 1, Len(sorted) - 1), p),
                sorted[Len(sorted)])

\* Array.prototype.sort((a, b) => a.index - b.index): a stable sort.
RECURSIVE insertByIndex(_, _)
insertByIndex(sorted, p) ==
    IF sorted = <<>> THEN <<p>>
    ELSE IF sorted[Len(sorted)].index <= p.index THEN Append(sorted, p)
    ELSE Append(insertByIndex(SubSeq(sorted, 1, Len(sorted) - 1), p),
                sorted[Len(sorted)])

RECURSIVE sortFrom(_, _)
sortFrom(rest, sorted) ==
    IF rest = <<>> THEN sorted
    ELSE sortFrom(Tail(rest), insertByIndex(sorted, Head(rest)))

\* Variant: the parsed prompts are left in input order.
sortByIndex_InputOrder(parsedPrompts) == parsedPrompts

sortByIndex(parsedPrompts) == sortFrom(parsedPrompts, <<>>)

toProcessingFormat(parsedPrompts) ==
    [n \in DOMAIN parsedPrompts |->
        [id |-> parsedPrompts[n].index, text |-> parsedPrompts[n].text]]

\* `${p.id}`: the decimal digits of a non-negative integer.
RECURSIVE numToString(_)
numToString(n) ==
    IF n < 10 THEN << CHOOSE c \in Digits : DigitVal(c) = n >>
    ELSE numToString(n \div 10) \o << CHOOSE c \in Digits : DigitVal(c) = n % 10 >>

\* Variant: the entries are written without the period after the id.
RECURSIVE textToCopy_NoPeriod(_)
textToCopy_NoPeriod(prompts) ==
    IF prompts = <<>> THEN <<>>
    ELSE LET entry == numToString(prompts[1].id) \o <<" ">> \o prompts[1].text
         IN IF Len(prompts) = 1 THEN entry
            ELSE entry \o <<NL, NL>> \o textToCopy_NoPeriod(Tail(prompts))

\* handleCopyFailedPrompts: prompts.map(p => `${p.id}. ${p.text}`).join('\n\n').
RECURSIVE textToCopy(_)
textToCopy(prompts) ==
    IF prompts = <<>> THEN <<>>
    ELSE LET entry == numToString(prompts[1].id) \o <<".", " ">> \o prompts[1].text
         IN IF Len(prompts) = 1 THEN entry
            ELSE entry \o <<NL, NL>> \o textToCopy(Tail(prompts))

(***************************************************************************)
(* services/gemini.ts: generateImage.  The outcome of ai.models            *)
(* .generateImages is either a response whose generatedImages is the list  *)
(* of the imageBytes returned, or an exception.                            *)
(***************************************************************************)
SafetyBlockedMsg ==
    <<"This prompt was blocked for ", "safety reasons", ". Please try rephrasing it.">>
NoImageMsg == <<"The API did not return an image.">>
ImageFailedMsg == <<"Image generation failed.">>
UnknownErrorMsg == <<"An unknown error occurred.">>

\* Variant: an exception's own message is returned as the error.
generateImage_RawMessage(outcome) ==
    IF outcome.kind = "response"
    THEN IF Len(outcome.generatedImages) > 0
         THEN [base64 |-> outcome.generatedImages[1], error |-> <<>>]
         ELSE [base64 |-> "", error |-> NoImageMsg]
    ELSE [base64 |-> "",
          error |-> IF outcome.isError THEN outcome.message ELSE UnknownErrorMsg]

generateImage(outcome) ==
    IF outcome.kind = "response"
    THEN IF Len(outcome.generatedImages) > 0
         THEN [base64 |-> outcome.generatedImages[1], error |-> <<>>]
         ELSE [base64 |-> "", error |-> NoImageMsg]
    ELSE LET errorMessage == IF outcome.isError THEN outcome.message
                             ELSE UnknownErrorMsg
         IN IF \/ includes(errorMessage, <<"sensitive words">>)
               \/ includes(errorMessage, <<"Responsible AI practices">>)
               \/ includes(errorMessage, <<"prompt contains ", "sensitive words">>)
            THEN [base64 |-> "", error |-> SafetyBlockedMsg]
            ELSE [base64 |-> "", error |-> ImageFailedMsg]

(***************************************************************************)
(* services/stability.ts: generateImageWithStability.  The outcome of the  *)
(* request is an HTTP response (ok with the image body, or not ok with a   *)
(* JSON error body) or an exception of fetch / response.json / the reader. *)
(***************************************************************************)
StabilityNotConfiguredMsg == <<"Stability AI API key is not configured.">>

generateImageWithStability(keySet, outcome) ==
    IF ~keySet
    THEN [base64 |-> "", error |-> StabilityNotConfiguredMsg]
    ELSE IF outcome.kind = "response" /\ outcome.ok
    THEN [base64 |-> outcome.base64, error |-> <<>>]
    ELSE LET errorMessage ==
                 IF outcome.kind = "response"
                 THEN IF outcome.errors # <<>> THEN outcome.errors[1]
                      ELSE <<"Unknown Stability AI error">>
                 ELSE IF outcome.isError THEN outcome.message
                 ELSE <<"An unknown error occurred with Stability AI.">>
         IN [base64 |-> "", error |-> <<"Stability AI Error: ">> \o errorMessage]

(***************************************************************************)
(* services/gemini.ts: generatePrompts.  The response text is "empty",     *)
(* "notjson" (JSON.parse throws), or "json"; a parsed value either has an  *)
(* array under prompts or not.  The result is [ok, prompts] or the Error   *)
(* thrown, [ok |-> FALSE, message].                                        *)
(***************************************************************************)
EmptyResponseMsg ==
    <<"The AI returned", " an empty response. This can happen if the script is too short, vague, or contains content that goes against the safety policy.">>
SafetyPolicyMsg ==
    <<"The script or style", " contains content that violates safety policies. Please revise your input and try again.">>
RecitationMsg ==
    <<"The response was blocked", " due to potential recitation issues. Try rephrasing your script.">>
StoppedMsg(finishReason) ==
    <<"Prompt generation stopped", " unexpectedly. Reason: ", finishReason, ". Please check your script content.">>
InvalidStructureMsg ==
    <<"The AI returned", " a response with an invalid structure. Please try again.">>
NotValidJsonMsg ==
    <<"The AI returned", " a response that was not valid JSON. This may be a temporary issue, please try again.">>
UnexpectedServiceMsg ==
    <<"Failed to generate prompts from the script due to an unexpected AI service error.">>

\* The inner try block: what is returned or thrown before the outer catch.
generatePromptsTry(outcome) ==
    IF outcome.kind = "throw" THEN [ok |-> FALSE, message |-> outcome.message]
    ELSE IF outcome.text = "empty"
    THEN LET finishReason == outcome.finishReason
         IN [ok |-> FALSE,
             message |-> IF finishReason = "SAFETY" THEN SafetyPolicyMsg
                         ELSE IF finishReason = "RECITATION" THEN RecitationMsg
                         ELSE IF finishReason # "" /\ finishReason # "STOP"
                         THEN StoppedMsg(finishReason)
                         ELSE EmptyResponseMsg]
    ELSE LET parsed == IF outcome.text = "notjson"
                       THEN [ok |-> FALSE, message |-> <<"Unexpected token">>]
                       ELSE IF outcome.isArray
                       THEN [ok |-> TRUE, prompts |-> outcome.prompts]
                       ELSE [ok |-> FALSE, message |-> InvalidStructureMsg]
         IN \* catch (parseError): every throw of the try block lands here
            IF parsed.ok THEN parsed ELSE [ok |-> FALSE, message |-> NotValidJsonMsg]

\* Variant: the outer catch replaces every message by the generic one.
generatePrompts_GenericCatch(outcome) ==
    LET r == generatePromptsTry(outcome)
    IN IF r.ok THEN r
       ELSE [ok |-> FALSE, message |-> UnexpectedServiceMsg]

generatePrompts(outcome) ==
    LET r == generatePromptsTry(outcome)
    IN IF r.ok THEN r
       ELSE IF \/ startsWith(r.message, <<"The AI returned">>)
               \/ startsWith(r.message, <<"The script or style">>)
               \/ startsWith(r.message, <<"The response was blocked">>)
               \/ startsWith(r.message, <<"Prompt generation stopped">>)
       THEN r
       ELSE [ok |-> FALSE, message |-> UnexpectedServiceMsg]

(***************************************************************************)
(* services/gemini.ts: analyzeImageStyle.  The outcome is the response     *)
(* text (trimmed) or an exception, which is replaced by a fixed message.   *)
(***************************************************************************)
AnalyzeFailedMsg == <<"Failed to analyze the reference image style.">>

analyzeImageStyle(outcome) ==
    IF outcome.kind = "response"
    THEN [ok |-> TRUE, style |-> trim(outcome.text)]
    ELSE [ok |-> FALSE, message |-> AnalyzeFailedMsg]

(***************************************************************************)
(* Inputs of the model: what the user can type or pick, and what the       *)
(* providers can answer.                                                   *)
(***************************************************************************)
InitialImageStyle ==
    <<"c", "i", "n", "e", "m", "a", "t", "i", "c", ",", " ",
      "p", "h", "o", "t", "o", "r", "e", "a", "l", "i", "s", "t", "i", "c", ",", " ",
      "4", "k">>

Scripts == { <<>>, <<" ">>, <<"s">> }
StyleKeywords == { <<>>, <<"k">> }
CustomTexts ==
    { <<" ">>,
      <<"a">>,
      <<"1", ".", " ", "a", NL, "2", ".", " ", "b">>,
      <<"2", ".", " ", "b", NL, NL, "1", ".", "a">>,
      <<"1", ".", " ", "a", NL, "1", ".", " ", "b">>,
      <<"1", ".", " ", "a", NL, "0", "1", ".", " ", "b">>,
      <<"x", NL, "7", ".", " ", "a", " ", NL, " ", "b">> }

PromptTexts == { <<"P">>, <<"Q">> }

RECURSIVE SeqsUpTo(_, _)
SeqsUpTo(S, n) ==
    IF n = 0 THEN { <<>> }
    ELSE LET shorter == SeqsUpTo(S, n - 1)
         IN shorter \cup { Append(q, x) : q \in shorter, x \in S }

PrimaryOutcomes ==
    { [kind |-> "response", generatedImages |-> g] :
          g \in { <<>>, <<"IMG_G">>, <<"">> } }
    \cup
    { [kind |-> "throw", isError |-> TRUE, message |-> m] :
          m \in { <<"The ", "prompt contains ", "sensitive words", ".">>,
                  <<"Violates ", "Responsible AI practices", ".">>,
                  <<"Request blocked for ", "safety reasons", ".">>,
                  <<"429 quota exceeded">> } }
    \cup
    { [kind |-> "throw", isError |-> FALSE, message |-> m] :
          m \in { <<>>, <<"sensitive words">> } }

StabilityOutcomes ==
    { [kind |-> "response", ok |-> TRUE, base64 |-> b, errors |-> <<>>] :
          b \in { "IMG_S", "" } }
    \cup
    { [kind |-> "response", ok |-> FALSE, base64 |-> "", errors |-> e] :
          e \in { <<>>, << <<"content moderation">> >> } }
    \cup
    { [kind |-> "throw", isError |-> TRUE, message |-> <<"Failed to fetch">>],
      [kind |-> "throw", isError |-> FALSE, message |-> <<>>] }

PromptOutcomes ==
    { [kind |-> "throw", message |-> <<"503 overloaded">>] }
    \cup
    { [kind |-> "response", text |-> "empty", finishReason |-> r,
       isArray |-> FALSE, prompts |-> <<>>] :
          r \in { "", "STOP", "SAFETY", "RECITATION", "MAX_TOKENS" } }
    \cup
    { [kind |-> "response", text |-> "notjson", finishReason |-> "STOP",
       isArray |-> FALSE, prompts |-> <<>>],
      [kind |-> "response", text |-> "json", finishReason |-> "STOP",
       isArray |-> FALSE, prompts |-> <<>>] }
    \cup
    { [kind |-> "response", text |-> "json", finishReason |-> "STOP",
       isArray |-> TRUE, prompts |-> ps] : ps \in SeqsUpTo(PromptTexts, MaxPrompts) }

StyleOutcomes ==
    { [kind |-> "response", text |-> t] : t \in { <<" ">>, <<"d", " ">> } }
    \cup { [kind |-> "throw", text |-> <<>>] }

(***************************************************************************)
(* State.  The React state of App, the build-time configuration, the       *)
(* locals of the running handleGenerate with its position pc, and the      *)
(* history of the run: runs counts the runs started, edits the input       *)
(* changes, trace lists the calls of the current run with their results.   *)
(***************************************************************************)
VARIABLES script, imageStyle, aspectRatio, promptSource, customPrompts,
          referenceImageFile, STABILITY_API_KEY,
          generatedPrompts, generatedImages, failedPrompts,
          appState, progressMessage, error,
          pc, promptsToProcess, effectiveImageStyle, i, imageResults,
          localFailedPrompts, engine, finalPrompt,
          runs, edits, trace

inputs == <<script, imageStyle, aspectRatio, promptSource, customPrompts,
            referenceImageFile>>
outputs == <<generatedPrompts, generatedImages, failedPrompts>>
locals == <<promptsToProcess, effectiveImageStyle, i, imageResults,
            localFailedPrompts, engine, finalPrompt>>
vars == <<script, imageStyle, aspectRatio, promptSource, customPrompts,
          referenceImageFile, STABILITY_API_KEY,
          generatedPrompts, generatedImages, failedPrompts,
          appState, progressMessage, error,
          pc, promptsToProcess, effectiveImageStyle, i, imageResults,
          localFailedPrompts, engine, finalPrompt,
          runs, edits, trace>>

Init ==
    /\ script = <<>>
    /\ imageStyle = InitialImageStyle
    /\ aspectRatio = "16:9"
    /\ promptSource = "script"
    /\ customPrompts = <<>>
    /\ referenceImageFile = FALSE
    /\ STABILITY_API_KEY \in BOOLEAN
    /\ generatedPrompts = <<>>
    /\ generatedImages = <<>>
    /\ failedPrompts = <<>>
    /\ appState = IDLE
    /\ progressMessage = <<>>
    /\ error = <<>>
    /\ pc = "none"
    /\ promptsToProcess = <<>>
    /\ effectiveImageStyle = <<>>
    /\ i = 0
    /\ imageResults = <<>>
    /\ localFailedPrompts = <<>>
    /\ engine = "google"
    /\ finalPrompt = <<>>
    /\ runs = 0
    /\ edits = 0
    /\ trace = <<>>

isLoading == appState = GENERATING_PROMPTS \/ appState = GENERATING_IMAGES

(***************************************************************************)
(* The form controls: every one of them is disabled while isLoading.       *)
(***************************************************************************)
Edit ==
    /\ ~isLoading
    /\ edits < MaxEdits
    /\ edits' = edits + 1
    /\ UNCHANGED <<STABILITY_API_KEY, outputs, appState, progressMessage,
                   pc, locals, runs, trace>>

SetPromptSource ==
    /\ Edit
    /\ \E v \in {"script", "custom"} : v # promptSource /\ promptSource' = v
    /\ UNCHANGED <<script, imageStyle, aspectRatio, customPrompts,
                   referenceImageFile, error>>

SetScript ==
    /\ Edit
    /\ promptSource = "script"
    /\ \E v \in Scripts : v # script /\ script' = v
    /\ UNCHANGED <<imageStyle, aspectRatio, promptSource, customPrompts,
                   referenceImageFile, error>>

SetCustomPrompts ==
    /\ Edit
    /\ promptSource = "custom"
    /\ \E v \in CustomTexts : v # customPrompts /\ customPrompts' = v
    /\ UNCHANGED <<script, imageStyle, aspectRatio, promptSource,
                   referenceImageFile, error>>

SetImageStyle ==
    /\ Edit
    /\ \E v \in StyleKeywords : v # imageStyle /\ imageStyle' = v
    /\ UNCHANGED <<script, aspectRatio, promptSource, customPrompts,
                   referenceImageFile, error>>

SetAspectRatio ==
    /\ Edit
    /\ \E n \in DOMAIN ASPECT_RATIOS :
           ASPECT_RATIOS[n] # aspectRatio /\ aspectRatio' = ASPECT_RATIOS[n]
    /\ UNCHANGED <<script, imageStyle, promptSource, customPrompts,
                   referenceImageFile, error>>

handleReferenceImageChange ==
    /\ Edit
    /\ ~referenceImageFile
    /\ \E isImage \in BOOLEAN :
           IF isImage
           THEN referenceImageFile' = TRUE /\ error' = <<>>
           ELSE /\ error' = <<"Please upload a valid image file (e.g., JPG, PNG, WEBP).">>
                /\ UNCHANGED referenceImageFile
    /\ UNCHANGED <<script, imageStyle, aspectRatio, promptSource, customPrompts>>

removeReferenceImage ==
    /\ Edit
    /\ referenceImageFile
    /\ referenceImageFile' = FALSE
    /\ UNCHANGED <<script, imageStyle, aspectRatio, promptSource, customPrompts,
                   error>>

(***************************************************************************)
(* handleGenerate.  The handler is cut at every await and at every         *)
(* setAppState, so that each action holds one state transition of the      *)
(* pipeline; pc is the position of the run, "none" when no run is active.  *)
(***************************************************************************)
\* Variant: the button is not disabled while a run is in progress.
GenerateDisabled_NoLoadingCheck ==
    \/ (promptSource = "script" /\ trim(script) = <<>>)
    \/ (promptSource = "custom" /\ trim(customPrompts) = <<>>)

\* The disabled attribute of the Generate button.
GenerateDisabled ==
    \/ isLoading
    \/ (promptSource = "script" /\ trim(script) = <<>>)
    \/ (promptSource = "custom" /\ trim(customPrompts) = <<>>)

\* Variant: a run starts directly in the image stage.
StartState_SkipsPrompts == GENERATING_IMAGES

\* The state set when a run starts.
StartState == GENERATING_PROMPTS

\* Variant: the end of the image loop leaves the state as it is.
FinishState_StaysGenerating == GENERATING_IMAGES

\* The state set when the image loop has finished.
FinishState == DONE

\* The raw field of a call that has not been answered by a provider.
NoAnswer == [kind |-> "none"]

Call(fn, pos, prompt, ratio) ==
    trace' = Append(trace, [fn |-> fn, pos |-> pos, prompt |-> prompt,
                            aspectRatio |-> ratio, done |-> FALSE,
                            base64 |-> "", error |-> <<>>, raw |-> NoAnswer])

Return(base64, err) ==
    trace' = [trace EXCEPT ![Len(trace)] =
                 [@ EXCEPT !.done = TRUE, !.base64 = base64, !.error = err]]

\* The return of a text provider call (style analysis, prompt synthesis):
\* outcome is what the provider answered, err what the service made of it.
ReturnOf(outcome, base64, err) ==
    trace' = [trace EXCEPT ![Len(trace)] =
                 [@ EXCEPT !.done = TRUE, !.base64 = base64, !.error = err,
                           !.raw = outcome]]

\* setError(message); setAppState(IDLE); return
Abort(message) ==
    /\ error' = message
    /\ appState' = IDLE
    /\ pc' = "none"

\* Variant: the outcome of the previous run is not cleared.
StartRun_KeepsOutcome ==
    /\ runs < MaxRuns
    /\ runs' = runs + 1
    /\ error' = <<>>
    /\ progressMessage' = <<"Starting generation...">>
    /\ promptsToProcess' = <<>>
    /\ effectiveImageStyle' = imageStyle
    /\ appState' = StartState
    /\ i' = 0
    /\ imageResults' = <<>>
    /\ localFailedPrompts' = <<>>
    /\ engine' = "google"
    /\ finalPrompt' = <<>>
    /\ trace' = <<>>
    /\ pc' = "style"
    /\ UNCHANGED <<inputs, STABILITY_API_KEY, edits, outputs>>

\* The first segment of handleGenerate: the reset of the previous run's
\* outputs up to setAppState(GENERATING_PROMPTS).
StartRun ==
    /\ runs < MaxRuns
    /\ runs' = runs + 1
    /\ error' = <<>>
    /\ progressMessage' = <<"Starting generation...">>
    /\ generatedImages' = <<>>
    /\ generatedPrompts' = <<>>
    /\ failedPrompts' = <<>>
    /\ promptsToProcess' = <<>>
    /\ effectiveImageStyle' = imageStyle
    /\ appState' = StartState
    /\ i' = 0
    /\ imageResults' = <<>>
    /\ localFailedPrompts' = <<>>
    /\ engine' = "google"
    /\ finalPrompt' = <<>>
    /\ trace' = <<>>
    /\ pc' = "style"
    /\ UNCHANGED <<inputs, STABILITY_API_KEY, edits>>

\* The Generate button's onClick: the handler runs when the button is enabled.
handleGenerate ==
    /\ ~GenerateDisabled
    /\ StartRun

\* 1. Analyze reference image style if it exists.
ResolveStyle ==
    /\ pc = "style"
    /\ IF referenceImageFile
       THEN /\ progressMessage' = <<"Analyzing reference image style...">>
            /\ Call("fileToBase64", 0, <<>>, "")
            /\ pc' = "awaitFile"
       ELSE /\ pc' = "acquire"
            /\ UNCHANGED <<progressMessage, trace>>
    /\ UNCHANGED <<inputs, STABILITY_API_KEY, outputs, appState, error, locals,
                   runs, edits>>

fileToBase64Returned ==
    /\ pc = "awaitFile"
    /\ \E resolved \in BOOLEAN :
           IF resolved
           THEN /\ trace' = Append([trace EXCEPT ![Len(trace)].done = TRUE],
                                   [fn |-> "analyzeImageStyle", pos |-> 0,
                                    prompt |-> <<>>, aspectRatio |-> "",
                                    done |-> FALSE, base64 |-> "", error |-> <<>>,
                                    raw |-> NoAnswer])
                /\ pc' = "awaitStyle"
                /\ UNCHANGED <<error, appState>>
           ELSE \* reader.onerror rejects with an event, not an Error
                /\ Return("", <<"Failed to analyze reference image.">>)
                /\ Abort(<<"Failed to analyze reference image.">>)
    /\ UNCHANGED <<inputs, STABILITY_API_KEY, outputs, progressMessage, locals,
                   runs, edits>>

CombineStyle(styleFromImage, style) == styleFromImage \o <<",", " ">> \o style

\* Variant: a failed analysis is reported but the run goes on.
analyzeImageStyleReturned_ContinuesOnFailure ==
    /\ pc = "awaitStyle"
    /\ \E outcome \in StyleOutcomes :
           LET r == analyzeImageStyle(outcome)
           IN IF r.ok
              THEN /\ effectiveImageStyle' = CombineStyle(r.style, imageStyle)
                   /\ ReturnOf(outcome, "", <<>>)
                   /\ UNCHANGED error
              ELSE /\ ReturnOf(outcome, "", r.message)
                   /\ error' = r.message
                   /\ UNCHANGED effectiveImageStyle
    /\ pc' = "acquire"
    /\ UNCHANGED <<inputs, STABILITY_API_KEY, outputs, progressMessage, appState,
                   promptsToProcess, i, imageResults, localFailedPrompts,
                   engine, finalPrompt, runs, edits>>

analyzeImageStyleReturned ==
    /\ pc = "awaitStyle"
    /\ \E outcome \in StyleOutcomes :
           LET r == analyzeImageStyle(outcome)
           IN IF r.ok
              THEN /\ effectiveImageStyle' = CombineStyle(r.style, imageStyle)
                   /\ ReturnOf(outcome, "", <<>>)
                   /\ pc' = "acquire"
                   /\ UNCHANGED <<error, appState>>
              ELSE /\ ReturnOf(outcome, "", r.message)
                   /\ Abort(r.message)
                   /\ UNCHANGED effectiveImageStyle
    /\ UNCHANGED <<inputs, STABILITY_API_KEY, outputs, progressMessage,
                   promptsToProcess, i, imageResults, localFailedPrompts,
                   engine, finalPrompt, runs, edits>>

ScriptEmptyMsg == <<"Script cannot be empty.">>
CustomEmptyMsg == <<"Custom prompts field cannot be empty.">>
NoValidPromptsMsg ==
    <<"No valid numbered prompts found. Use a format like \"1. Your prompt\". Each prompt must start on a new line with a number and a period.">>
NoPromptsMsg == <<"No prompts were generated or provided.">>

\* Variant: the empty check is missing and the image stage is always entered.
SubmitPrompts_NoEmptyCheck(prompts) ==
    /\ promptsToProcess' = prompts
    /\ generatedPrompts' = prompts
    /\ appState' = GENERATING_IMAGES
    /\ pc' = "loop"
    /\ UNCHANGED error

\* The end of the prompt acquisition: the empty check and the entry into the
\* image stage with the list prompts.
SubmitPrompts(prompts) ==
    /\ promptsToProcess' = prompts
    /\ generatedPrompts' = prompts
    /\ IF Len(prompts) = 0
       THEN Abort(NoPromptsMsg)
       ELSE /\ appState' = GENERATING_IMAGES
            /\ pc' = "loop"
            /\ UNCHANGED error

\* Variant: the handler does not check its input for blank text.
AcquirePrompts_NoBlankCheck ==
    /\ pc = "acquire"
    /\ IF promptSource = "script"
       THEN /\ progressMessage' = <<"Analyzing script and generating prompts...">>
            /\ Call("generatePrompts", 0, <<>>, "")
            /\ pc' = "awaitPrompts"
            /\ UNCHANGED <<error, appState, promptsToProcess, generatedPrompts>>
       ELSE LET parsedPrompts == parsePrompts(customPrompts)
            IN /\ IF Len(parsedPrompts) = 0
                  THEN /\ Abort(NoValidPromptsMsg)
                       /\ UNCHANGED <<promptsToProcess, generatedPrompts>>
                  ELSE SubmitPrompts(toProcessingFormat(sortByIndex(parsedPrompts)))
               /\ UNCHANGED <<progressMessage, trace>>
    /\ UNCHANGED <<inputs, STABILITY_API_KEY, generatedImages, failedPrompts,
                   effectiveImageStyle, i, imageResults, localFailedPrompts,
                   engine, finalPrompt, runs, edits>>

\* 2. Get base prompts from script or custom input.
AcquirePrompts ==
    /\ pc = "acquire"
    /\ IF promptSource = "script"
       THEN IF trim(script) = <<>>
            THEN /\ Abort(ScriptEmptyMsg)
                 /\ UNCHANGED <<progressMessage, trace, promptsToProcess,
                                generatedPrompts>>
            ELSE /\ progressMessage' = <<"Analyzing script and generating prompts...">>
                 /\ Call("generatePrompts", 0, <<>>, "")
                 /\ pc' = "awaitPrompts"
                 /\ UNCHANGED <<error, appState, promptsToProcess, generatedPrompts>>
       ELSE IF trim(customPrompts) = <<>>
            THEN /\ Abort(CustomEmptyMsg)
                 /\ UNCHANGED <<progressMessage, trace, promptsToProcess,
                                generatedPrompts>>
            ELSE LET parsedPrompts == parsePrompts(customPrompts)
                 IN /\ IF Len(parsedPrompts) = 0
                       THEN /\ Abort(NoValidPromptsMsg)
                            /\ UNCHANGED <<promptsToProcess, generatedPrompts>>
                       ELSE SubmitPrompts(toProcessingFormat(sortByIndex(parsedPrompts)))
                    /\ UNCHANGED <<progressMessage, trace>>
    /\ UNCHANGED <<inputs, STABILITY_API_KEY, generatedImages, failedPrompts,
                   effectiveImageStyle, i, imageResults, localFailedPrompts,
                   engine, finalPrompt, runs, edits>>

\* Variant: the ids are the 0-based positions.
scriptPrompts_ZeroBased(generated) ==
    [n \in DOMAIN generated |-> [id |-> n - 1, text |-> generated[n]]]

scriptPrompts(generated) ==
    [n \in DOMAIN generated |-> [id |-> n, text |-> generated[n]]]

\* Variant: a failed synthesis is tried again.
generatePromptsReturned_RetryOnFailure ==
    /\ pc = "awaitPrompts"
    /\ \E outcome \in PromptOutcomes :
           LET r == generatePrompts(outcome)
           IN IF r.ok
              THEN /\ ReturnOf(outcome, "", <<>>)
                   /\ SubmitPrompts(scriptPrompts(r.prompts))
              ELSE /\ trace' = Append(
                          [trace EXCEPT ![Len(trace)] =
                              [@ EXCEPT !.done = TRUE, !.error = r.message,
                                        !.raw = outcome]],
                          [fn |-> "generatePrompts", pos |-> 0, prompt |-> <<>>,
                           aspectRatio |-> "", done |-> FALSE, base64 |-> "",
                           error |-> <<>>, raw |-> NoAnswer])
                   /\ UNCHANGED <<error, appState, pc, promptsToProcess,
                                  generatedPrompts>>
    /\ UNCHANGED <<inputs, STABILITY_API_KEY, generatedImages, failedPrompts,
                   progressMessage, effectiveImageStyle, i, imageResults,
                   localFailedPrompts, engine, finalPrompt, runs, edits>>

generatePromptsReturned ==
    /\ pc = "awaitPrompts"
    /\ \E outcome \in PromptOutcomes :
           LET r == generatePrompts(outcome)
           IN IF r.ok
              THEN /\ ReturnOf(outcome, "", <<>>)
                   /\ SubmitPrompts(scriptPrompts(r.prompts))
              ELSE \* the catch of handleGenerate
                   /\ ReturnOf(outcome, "", r.message)
                   /\ Abort(r.message)
                   /\ UNCHANGED <<promptsToProcess, generatedPrompts>>
    /\ UNCHANGED <<inputs, STABILITY_API_KEY, generatedImages, failedPrompts,
                   progressMessage, effectiveImageStyle, i, imageResults,
                   localFailedPrompts, engine, finalPrompt, runs, edits>>

(***************************************************************************)
(* 3. Generate images from the prompts.                                    *)
(***************************************************************************)
\* Variant: the loop stops one prompt early.
LoopCondition_OffByOne(n, prompts) == n < Len(prompts) - 1

LoopCondition(n, prompts) == n < Len(prompts)

\* Variant: the style is appended in script mode as well.
FinalPrompt_AlwaysStyled(promptData, source, style) ==
    IF trim(style) # <<>>
    THEN promptData.text \o <<",", " ">> \o style
    ELSE promptData.text

FinalPrompt(promptData, source, style) ==
    IF source = "custom" /\ trim(style) # <<>>
    THEN promptData.text \o <<",", " ">> \o style
    ELSE promptData.text

\* Variant: the next image call is issued without awaiting the previous one.
NextImage_NoAwait ==
    /\ pc \in {"loop", "awaitPrimary"}
    /\ LET issued == Cardinality({ n \in DOMAIN trace : trace[n].fn = "generateImage" })
       IN /\ LoopCondition(issued, promptsToProcess)
          /\ LET promptData == promptsToProcess[issued + 1]
                 fp == FinalPrompt(promptData, promptSource, effectiveImageStyle)
             IN /\ progressMessage' = <<"Generating image ", issued + 1, " of ",
                                        Len(promptsToProcess), " (Prompt #",
                                        promptData.id, ")...">>
                /\ finalPrompt' = fp
                /\ Call("generateImage", issued + 1, fp, aspectRatio)
    /\ pc' = "awaitPrimary"
    /\ UNCHANGED <<inputs, STABILITY_API_KEY, outputs, appState, error,
                   promptsToProcess, effectiveImageStyle, i, imageResults,
                   localFailedPrompts, engine, runs, edits>>

\* Variant: the progress text counts the positions from 0.
ImageProgress_ZeroBased(n, prompts) ==
    <<"Generating image ", n, " of ", Len(prompts), " (Prompt #",
      prompts[n + 1].id, ")...">>

\* The progress text of iteration n (0-based) of the image loop.
ImageProgress(n, prompts) ==
    <<"Generating image ", n + 1, " of ", Len(prompts), " (Prompt #",
      prompts[n + 1].id, ")...">>

NextImage ==
    /\ pc = "loop"
    /\ LoopCondition(i, promptsToProcess)
    /\ LET promptData == promptsToProcess[i + 1]
           fp == FinalPrompt(promptData, promptSource, effectiveImageStyle)
       IN /\ progressMessage' = ImageProgress(i, promptsToProcess)
          /\ finalPrompt' = fp
          /\ Call("generateImage", i + 1, fp, aspectRatio)
    /\ pc' = "awaitPrimary"
    /\ UNCHANGED <<inputs, STABILITY_API_KEY, outputs, appState, error,
                   promptsToProcess, effectiveImageStyle, i, imageResults,
                   localFailedPrompts, engine, runs, edits>>

\* Variant: the fallback looks for the provider's raw wording.
NeedsFallback_RawSignature(result, keySet) ==
    /\ result.error # <<>>
    /\ includes(result.error, <<"sensitive words">>)
    /\ keySet

\* Variant: the fallback is taken whenever the secondary is configured.
NeedsFallback_Always(result, keySet) == keySet

\* Variant: the fallback does not look at the configuration.
NeedsFallback_IgnoresKey(result, keySet) ==
    /\ result.error # <<>>
    /\ includes(result.error, <<"safety reasons">>)

\* Fallback to Stability AI if Google blocks the prompt for safety reasons.
NeedsFallback(result, keySet) ==
    /\ result.error # <<>>
    /\ includes(result.error, <<"safety reasons">>)
    /\ keySet

\* Variant: the secondary error is passed on as it is.
EnrichError_Plain(err) == err

EnrichError(err) ==
    <<"Google blocked prompt. Stability AI also failed: ">> \o err

\* Variant: every result is tagged with the primary provider.
NewImage_AlwaysGoogle(promptData, result, eng) ==
    IF result.base64 # ""
    THEN [id |-> promptData.id, prompt |-> promptData.text,
          base64 |-> result.base64,
          url |-> <<"data:image/jpeg;base64,", result.base64>>,
          error |-> <<>>, engine |-> "google"]
    ELSE [id |-> promptData.id, prompt |-> promptData.text,
          base64 |-> "", url |-> <<>>,
          error |-> IF result.error # <<>> THEN result.error
                    ELSE <<"Failed to generate image.">>,
          engine |-> "google"]

\* Variant: a failed attempt carries the provider's error as it is, without
\* the default message.
NewImage_NoDefaultError(promptData, result, eng) ==
    IF result.base64 # ""
    THEN [id |-> promptData.id, prompt |-> promptData.text,
          base64 |-> result.base64,
          url |-> <<"data:image/jpeg;base64,", result.base64>>,
          error |-> <<>>, engine |-> eng]
    ELSE [id |-> promptData.id, prompt |-> promptData.text,
          base64 |-> "", url |-> <<>>,
          error |-> result.error,
          engine |-> eng]

NewImage(promptData, result, eng) ==
    IF result.base64 # ""
    THEN [id |-> promptData.id, prompt |-> promptData.text,
          base64 |-> result.base64,
          url |-> <<"data:image/jpeg;base64,", result.base64>>,
          error |-> <<>>, engine |-> eng]
    ELSE [id |-> promptData.id, prompt |-> promptData.text,
          base64 |-> "", url |-> <<>>,
          error |-> IF result.error # <<>> THEN result.error
                    ELSE <<"Failed to generate image.">>,
          engine |-> eng]

\* Variant: a new result takes the place of the last one.
PushResult_ReplaceLast(results, newImage) ==
    IF results = <<>> THEN << newImage >>
    ELSE [results EXCEPT ![Len(results)] = newImage]

\* Variant: failed attempts are not kept.
PushResult_DropFailed(results, newImage) ==
    IF newImage.error # <<>> THEN results ELSE Append(results, newImage)

PushResult(results, newImage) == Append(results, newImage)

\* The end of one iteration: lines 205-225.
Record(result, eng) ==
    LET promptData == promptsToProcess[i + 1]
        newImage == NewImage(promptData, result, eng)
    IN /\ imageResults' = PushResult(imageResults, newImage)
       /\ generatedImages' = imageResults'
       /\ localFailedPrompts' = IF result.base64 # ""
                                THEN localFailedPrompts
                                ELSE Append(localFailedPrompts, promptData)
       /\ i' = i + 1
       /\ pc' = "loop"

generateImageReturned ==
    /\ pc = "awaitPrimary"
    /\ \E outcome \in PrimaryOutcomes :
           LET result == generateImage(outcome)
           IN IF NeedsFallback(result, STABILITY_API_KEY)
              THEN /\ progressMessage' = <<"Prompt #", promptsToProcess[i + 1].id,
                                           " rejected. Retrying with Stability AI...">>
                   /\ engine' = "stability"
                   /\ trace' = Append(
                          [trace EXCEPT ![Len(trace)] =
                              [@ EXCEPT !.done = TRUE, !.base64 = result.base64,
                                        !.error = result.error]],
                          [fn |-> "generateImageWithStability", pos |-> i + 1,
                           prompt |-> finalPrompt, aspectRatio |-> aspectRatio,
                           done |-> FALSE, base64 |-> "", error |-> <<>>,
                           raw |-> NoAnswer])
                   /\ pc' = "awaitSecondary"
                   /\ UNCHANGED <<generatedImages, i, imageResults,
                                  localFailedPrompts>>
              ELSE /\ engine' = "google"
                   /\ Return(result.base64, result.error)
                   /\ Record(result, "google")
                   /\ UNCHANGED progressMessage
    /\ UNCHANGED <<inputs, STABILITY_API_KEY, generatedPrompts, failedPrompts,
                   appState, error, promptsToProcess, effectiveImageStyle,
                   finalPrompt, runs, edits>>

\* Variant: the result is tagged with the secondary provider only when the
\* secondary provider returned an image.
generateImageWithStabilityReturned_TagOnSuccess ==
    /\ pc = "awaitSecondary"
    /\ \E outcome \in StabilityOutcomes :
           LET returned == generateImageWithStability(STABILITY_API_KEY, outcome)
               result == IF returned.error # <<>>
                         THEN [returned EXCEPT !.error = EnrichError(returned.error)]
                         ELSE returned
           IN /\ Return(returned.base64, returned.error)
              /\ Record(result, IF returned.base64 # "" THEN engine ELSE "google")
    /\ UNCHANGED <<inputs, STABILITY_API_KEY, generatedPrompts, failedPrompts,
                   appState, progressMessage, error, promptsToProcess,
                   effectiveImageStyle, engine, finalPrompt, runs, edits>>

generateImageWithStabilityReturned ==
    /\ pc = "awaitSecondary"
    /\ \E outcome \in StabilityOutcomes :
           LET returned == generateImageWithStability(STABILITY_API_KEY, outcome)
               result == IF returned.error # <<>>
                         THEN [returned EXCEPT !.error = EnrichError(returned.error)]
                         ELSE returned
           IN /\ Return(returned.base64, returned.error)
              /\ Record(result, engine)
    /\ UNCHANGED <<inputs, STABILITY_API_KEY, generatedPrompts, failedPrompts,
                   appState, progressMessage, error, promptsToProcess,
                   effectiveImageStyle, engine, finalPrompt, runs, edits>>

\* Variant: every result counts as successful.
successfulImages_CountsAll(results) == Len(results)

successfulImages(results) ==
    Cardinality({ n \in DOMAIN results : results[n].error = <<>> })

\* Variant: the failed prompts are not published at the end of the run.
Finish_KeepsFailedPrompts ==
    /\ pc = "loop"
    /\ ~LoopCondition(i, promptsToProcess)
    /\ appState' = FinishState
    /\ progressMessage' =
           IF successfulImages(imageResults) = Len(promptsToProcess)
           THEN <<"All images generated successfully!">>
           ELSE <<"Generated ", successfulImages(imageResults), " of ",
                  Len(promptsToProcess), " images. Some prompts may have failed.">>
    /\ pc' = "none"
    /\ UNCHANGED <<inputs, STABILITY_API_KEY, outputs, error, locals, runs,
                   edits, trace>>

Finish ==
    /\ pc = "loop"
    /\ ~LoopCondition(i, promptsToProcess)
    /\ failedPrompts' = localFailedPrompts
    /\ appState' = FinishState
    /\ progressMessage' =
           IF successfulImages(imageResults) = Len(promptsToProcess)
           THEN <<"All images generated successfully!">>
           ELSE <<"Generated ", successfulImages(imageResults), " of ",
                  Len(promptsToProcess), " images. Some prompts may have failed.">>
    /\ pc' = "none"
    /\ UNCHANGED <<inputs, STABILITY_API_KEY, generatedPrompts, generatedImages,
                   error, locals, runs, edits, trace>>

Next ==
    \/ SetPromptSource
    \/ SetScript
    \/ SetCustomPrompts
    \/ SetImageStyle
    \/ SetAspectRatio
    \/ handleReferenceImageChange
    \/ removeReferenceImage
    \/ handleGenerate
    \/ ResolveStyle
    \/ fileToBase64Returned
    \/ analyzeImageStyleReturned
    \/ AcquirePrompts
    \/ generatePromptsReturned
    \/ NextImage
    \/ generateImageReturned
    \/ generateImageWithStabilityReturned
    \/ Finish

Spec == Init /\ [][Next]_vars

TypeOK ==
    /\ appState \in AppState
    /\ pc \in {"none", "style", "awaitFile", "awaitStyle", "acquire",
               "awaitPrompts", "loop", "awaitPrimary", "awaitSecondary"}
    /\ runs \in 0..MaxRuns
    /\ i \in 0..Len(promptsToProcess)

\* A run is active exactly while the state is one of the two loading states.
RunActiveIffLoading == (pc # "none") <=> isLoading

(***************************************************************************)
(* The calls of the current run, read from trace.                          *)
(***************************************************************************)
PrimaryCalls == { n \in DOMAIN trace : trace[n].fn = "generateImage" }
SecondaryCalls == { n \in DOMAIN trace : trace[n].fn = "generateImageWithStability" }
PrimaryCallsAt(p) == { n \in PrimaryCalls : trace[n].pos = p }
SecondaryCallsAt(p) == { n \in SecondaryCalls : trace[n].pos = p }
Pending == { n \in DOMAIN trace : ~trace[n].done }
SafetyBlocked(n) == includes(trace[n].error, <<"safety reasons">>)

(***************************************************************************)
(* C1.  Re-entrancy guard: no run is started while the state is            *)
(* GENERATING_PROMPTS or GENERATING_IMAGES.  Every step that starts a run  *)
(* (and so clears the prompt list and the result list and issues the       *)
(* run's provider calls) is taken from IDLE or DONE, with no run active.   *)
(***************************************************************************)
C1_ReentrancyGuard ==
    [][ (runs' # runs) =>
            /\ appState \in {IDLE, DONE}
            /\ pc = "none"
            /\ Pending = {} ]_vars

\* A run is in the image stage with results published, and the form would
\* otherwise allow a request (script present, run budget left).
C1_Witness ==
    /\ appState = GENERATING_IMAGES
    /\ generatedImages # <<>>
    /\ promptSource = "script" /\ trim(script) # <<>>
    /\ runs < MaxRuns
    /\ GenerateDisabled

(***************************************************************************)
(* C2.  Whenever the primary provider has failed for a prompt with the     *)
(* safety-block message and the secondary provider is configured, the      *)
(* secondary provider is called exactly once for that prompt, right after, *)
(* with the prompt text and the aspect ratio passed to the primary.        *)
(***************************************************************************)
C2_FallbackAttempted ==
    \A n \in PrimaryCalls :
        (trace[n].done /\ SafetyBlocked(n) /\ STABILITY_API_KEY) =>
            /\ Cardinality(SecondaryCallsAt(trace[n].pos)) = 1
            /\ n + 1 \in SecondaryCallsAt(trace[n].pos)
            /\ trace[n + 1].prompt = trace[n].prompt
            /\ trace[n + 1].aspectRatio = trace[n].aspectRatio

\* The fallback has run for a custom prompt whose text carries the style.
C2_Witness ==
    \E n \in PrimaryCalls :
        /\ trace[n].done /\ SafetyBlocked(n) /\ STABILITY_API_KEY
        /\ n + 1 \in SecondaryCalls /\ trace[n + 1].done
        /\ trace[n].prompt # promptsToProcess[trace[n].pos].text

(***************************************************************************)
(* C3.  For a prompt whose primary generation returned an image, the       *)
(* secondary provider is never called.                                     *)
(***************************************************************************)
C3_NoFallbackOnSuccess ==
    \A n \in PrimaryCalls :
        (trace[n].done /\ trace[n].base64 # "") =>
            SecondaryCallsAt(trace[n].pos) = {}

\* A run with the secondary configured finished with a primary image.
C3_Witness ==
    /\ STABILITY_API_KEY
    /\ appState = DONE
    /\ \E n \in PrimaryCalls : trace[n].done /\ trace[n].base64 # ""

C6_ResultsMatchPrompts ==
    (appState = DONE) =>
        /\ Len(generatedImages) = Len(promptsToProcess)
        /\ generatedPrompts = promptsToProcess
        /\ \A n \in DOMAIN generatedImages :
               /\ generatedImages[n].id = promptsToProcess[n].id
               /\ generatedImages[n].prompt = promptsToProcess[n].text

\* A run of MaxPrompts prompts is DONE, with a failed and a successful result.
C6_Witness ==
    /\ appState = DONE
    /\ Len(promptsToProcess) = MaxPrompts
    /\ \E n \in DOMAIN generatedImages : generatedImages[n].error # <<>>
    /\ \E n \in DOMAIN generatedImages : generatedImages[n].base64 # ""

(***************************************************************************)
(* C7.  Per-image failures never abort the loop.  In the image stage the   *)
(* primary provider is attempted at most once per prompt, in a DONE run    *)
(* exactly once for each of the N prompts; every prompt whose last attempt *)
(* has failed has its own result, carrying the prompt's id and an error;   *)
(* and the state never goes from GENERATING_IMAGES to IDLE.                *)
(***************************************************************************)
LastCallAt(p) ==
    CHOOSE n \in DOMAIN trace :
        /\ trace[n].pos = p
        /\ \A m \in DOMAIN trace : trace[m].pos = p => m <= n

C7_LoopState ==
    (appState \in {GENERATING_IMAGES, DONE}) =>
        \A p \in 1..Len(promptsToProcess) :
            /\ Cardinality(PrimaryCallsAt(p)) <= 1
            /\ (appState = DONE) => Cardinality(PrimaryCallsAt(p)) = 1
            /\ (PrimaryCallsAt(p) # {} /\ trace[LastCallAt(p)].done
                  /\ trace[LastCallAt(p)].base64 = "") =>
                   /\ Len(imageResults) >= p
                   /\ imageResults[p].id = promptsToProcess[p].id
                   /\ imageResults[p].error # <<>>

C7_FailuresDoNotAbort ==
    /\ []C7_LoopState
    /\ [][ (appState = GENERATING_IMAGES) => (appState' # IDLE) ]_vars

\* The first prompt failed and the second prompt still got its image.
C7_Witness ==
    /\ appState = DONE
    /\ Len(imageResults) >= 2
    /\ imageResults[1].error # <<>>
    /\ imageResults[2].base64 # ""

(***************************************************************************)
(* C8.  At most one call is in flight at any moment, and while an image    *)
(* call for the prompt at position p is in flight every earlier call has   *)
(* returned and exactly the results of positions 1..p-1 have been appended *)
(* to the result list and published.                                       *)
(***************************************************************************)
C8_OneCallInFlight ==
    /\ Cardinality(Pending) <= 1
    /\ \A n \in Pending :
           /\ \A m \in 1..(n - 1) : trace[m].done
           /\ (n \in PrimaryCalls \cup SecondaryCalls) =>
                  /\ Len(imageResults) = trace[n].pos - 1
                  /\ generatedImages = imageResults

\* The image call of the second prompt is in flight after a failed first one.
C8_Witness ==
    \E n \in Pending :
        /\ n \in PrimaryCalls
        /\ trace[n].pos = 2
        /\ imageResults[1].error # <<>>

(***************************************************************************)
(* C9 as stated.  For any two consecutive image attempts of a run the id   *)
(* of the later prompt is strictly greater than the id of the earlier one. *)
(***************************************************************************)
IdAt(n) == promptsToProcess[trace[n].pos].id

ConsecutiveAttempts ==
    { pair \in PrimaryCalls \X PrimaryCalls :
        /\ pair[1] < pair[2]
        /\ \A k \in PrimaryCalls : ~(pair[1] < k /\ k < pair[2]) }

C9_StrictlyAscending ==
    \A pair \in ConsecutiveAttempts : IdAt(pair[2]) > IdAt(pair[1])

(***************************************************************************)
(* C9 amended.  For any two consecutive image attempts of a run the id of  *)
(* the later prompt is greater than or equal to the id of the earlier one  *)
(* and the later prompt is the next one of the submitted list; in script   *)
(* mode the id is strictly greater.                                        *)
(***************************************************************************)
C9_Ascending ==
    \A pair \in ConsecutiveAttempts :
        /\ IdAt(pair[2]) >= IdAt(pair[1])
        /\ trace[pair[2]].pos = trace[pair[1]].pos + 1
        /\ (isLoading /\ promptSource = "script") => IdAt(pair[2]) > IdAt(pair[1])

\* Two consecutive attempts of a running custom-prompt run carry the same id.
C9_Witness ==
    /\ promptSource = "custom" /\ isLoading
    /\ \E pair \in ConsecutiveAttempts : IdAt(pair[2]) = IdAt(pair[1])

(***************************************************************************)
(* C10.  The pipeline state changes only along IDLE -> GENERATING_PROMPTS, *)
(* GENERATING_PROMPTS -> GENERATING_IMAGES, GENERATING_IMAGES -> DONE,     *)
(* GENERATING_PROMPTS -> IDLE and DONE -> GENERATING_PROMPTS.              *)
(***************************************************************************)
AllowedTransitions ==
    { <<IDLE, GENERATING_PROMPTS>>,
      <<GENERATING_PROMPTS, GENERATING_IMAGES>>,
      <<GENERATING_IMAGES, DONE>>,
      <<GENERATING_PROMPTS, IDLE>>,
      <<DONE, GENERATING_PROMPTS>> }

C10_StateMachine ==
    [][ (appState' # appState) => (<<appState, appState'>> \in AllowedTransitions) ]_vars

\* A second run, started from DONE, has been aborted to IDLE.
C10_Witness ==
    /\ runs = 2
    /\ appState = IDLE
    /\ error # <<>>
    /\ trace # <<>>

(***************************************************************************)
(* More calls of the current run, read from trace.                         *)
(***************************************************************************)
StyleCalls == { n \in DOMAIN trace : trace[n].fn = "analyzeImageStyle" }
PromptCalls == { n \in DOMAIN trace : trace[n].fn = "generatePrompts" }
ProviderCalls == StyleCalls \cup PromptCalls \cup PrimaryCalls \cup SecondaryCalls

(***************************************************************************)
(* C11.  When the style analysis of the reference image has failed, the    *)
(* run is over: the state is IDLE, the analysis was called once and is the *)
(* last call of the run, and neither prompt synthesis nor an image         *)
(* provider was called.  The step on which the analysis fails sets the     *)
(* error to the analysis error and the state to IDLE.                      *)
(***************************************************************************)
C11_AbortedState ==
    \A n \in StyleCalls :
        (trace[n].done /\ trace[n].error # <<>>) =>
            /\ appState = IDLE
            /\ pc = "none"
            /\ n = Len(trace)
            /\ Cardinality(StyleCalls) = 1
            /\ PromptCalls = {} /\ PrimaryCalls = {} /\ SecondaryCalls = {}

C11_StyleFailureAborts ==
    /\ []C11_AbortedState
    /\ [][ (pc = "awaitStyle" /\ trace'[Len(trace')].error # <<>>) =>
               /\ error' = trace'[Len(trace')].error
               /\ error' = AnalyzeFailedMsg
               /\ appState' = IDLE ]_vars

\* A run with a reference image has been aborted by the failed analysis.
C11_Witness ==
    /\ referenceImageFile
    /\ appState = IDLE
    /\ error = AnalyzeFailedMsg
    /\ \E n \in StyleCalls : trace[n].done /\ trace[n].raw.kind = "throw"

(***************************************************************************)
(* C12 as stated.  In custom-prompt mode, when the input holds no numbered *)
(* line, no provider call of any kind is made during the run, whether or   *)
(* not a reference image is set, and the run ends in IDLE with the 'no     *)
(* valid numbered prompts' error.                                          *)
(***************************************************************************)
NoNumberedLine ==
    /\ promptSource = "custom"
    /\ trim(customPrompts) # <<>>
    /\ parsePrompts(customPrompts) = <<>>

C12_NoProviderCall ==
    /\ []((isLoading /\ NoNumberedLine) => ProviderCalls = {})
    /\ [][ (isLoading /\ NoNumberedLine /\ ~isLoading') =>
               /\ appState' = IDLE
               /\ error' = NoValidPromptsMsg ]_vars

(***************************************************************************)
(* The custom-prompt parser on its own: the user has chosen 'From Prompts' *)
(* and typed a text of at most MaxLines lines drawn from ParserLines, and  *)
(* one run is taken up to the end of the prompt acquisition.               *)
(***************************************************************************)
ParserLines ==
    { <<>>,
      <<" ">>,
      <<"a">>,
      <<" ", "b", " ">>,
      <<"1", ".", " ", "a">>,
      <<"2", ".", "b">>,
      <<"1", ".">>,
      <<" ", "0", "1", ".", " ", " ", "c", " ">>,
      <<"1", "0", ".", " ", "d">>,
      <<"1", "a">>,
      <<"3", " ", ".", " ", "e">> }

RECURSIVE joinLines(_)
joinLines(ls) ==
    IF Len(ls) = 0 THEN <<>>
    ELSE IF Len(ls) = 1 THEN ls[1]
    ELSE ls[1] \o <<NL>> \o joinLines(Tail(ls))

ParserTexts == { joinLines(ls) : ls \in SeqsUpTo(ParserLines, MaxLines) \ { <<>> } }

InitParser ==
    /\ script = <<>>
    /\ imageStyle = InitialImageStyle
    /\ aspectRatio = "16:9"
    /\ promptSource = "custom"
    /\ customPrompts \in ParserTexts
    /\ referenceImageFile = FALSE
    /\ STABILITY_API_KEY \in BOOLEAN
    /\ generatedPrompts = <<>>
    /\ generatedImages = <<>>
    /\ failedPrompts = <<>>
    /\ appState = IDLE
    /\ progressMessage = <<>>
    /\ error = <<>>
    /\ pc = "none"
    /\ promptsToProcess = <<>>
    /\ effectiveImageStyle = <<>>
    /\ i = 0
    /\ imageResults = <<>>
    /\ localFailedPrompts = <<>>
    /\ engine = "google"
    /\ finalPrompt = <<>>
    /\ runs = 0
    /\ edits = 2
    /\ trace = <<>>

NextParser ==
    \/ handleGenerate
    \/ ResolveStyle
    \/ AcquirePrompts

SpecParser == InitParser /\ [][NextParser]_vars

\* The prompt acquisition of the run has ended.
Parsed == runs >= 1 /\ pc \in {"none", "loop"}

(***************************************************************************)
(* The lines of a text as the parser sees them, and what the claims say    *)
(* the parser makes of them, stated line by line.                          *)
(***************************************************************************)
LinesOf(text) == split(trim(text))
LineAt(text, k) == trim(LinesOf(text)[k])

\* The line is a run of digits, a period, and the rest.
IsNumbered(line) ==
    \E k \in 1..(Len(line) - 1) :
        /\ \A j \in 1..k : line[j] \in Digits
        /\ line[k + 1] = "."

NumberLen(line) ==
    CHOOSE k \in 1..(Len(line) - 1) :
        /\ \A j \in 1..k : line[j] \in Digits
        /\ line[k + 1] = "."

LineId(line) == parseInt(SubSeq(line, 1, NumberLen(line)))
LineRest(line) == trim(SubSeq(line, NumberLen(line) + 2, Len(line)))

NumberedLines(text) ==
    { k \in DOMAIN LinesOf(text) : IsNumbered(LineAt(text, k)) }

\* The last line of the prompt that starts at the numbered line k.
LastLineOf(text, k) ==
    LET later == { j \in NumberedLines(text) : j > k }
    IN IF later = {} THEN Len(LinesOf(text))
       ELSE (CHOOSE j \in later : \A h \in later : j <= h) - 1

\* The non-blank lines a..b, each after a newline.
RECURSIVE Continuation(_, _, _)
Continuation(text, a, b) ==
    IF a > b THEN <<>>
    ELSE (IF LineAt(text, a) # <<>> THEN <<NL>> \o LineAt(text, a) ELSE <<>>)
             \o Continuation(text, a + 1, b)

ExpectedPrompt(text, k) ==
    [id |-> LineId(LineAt(text, k)),
     text |-> trim(LineRest(LineAt(text, k))
                       \o Continuation(text, k + 1, LastLineOf(text, k)))]

(***************************************************************************)
(* C13.  The parser starts a prompt at every line that (without its        *)
(* surrounding whitespace) is a number, a period and a rest: the id is the *)
(* number and the body starts with the rest.  Every later non-blank line   *)
(* up to the next numbered line is appended to the body after a newline,   *)
(* the lines before the first numbered line are discarded, and every       *)
(* prompt, the last one included, is in the output: the output holds       *)
(* exactly one prompt per numbered line, with that id and that body.       *)
(***************************************************************************)
C13_ParserBuildsPrompts ==
    Parsed =>
        LET numbered == NumberedLines(customPrompts)
        IN /\ Len(promptsToProcess) = Cardinality(numbered)
           /\ generatedPrompts = promptsToProcess
           /\ \E f \in [DOMAIN promptsToProcess -> numbered] :
                  /\ \A p, q \in DOMAIN promptsToProcess : f[p] = f[q] => p = q
                  /\ \A p \in DOMAIN promptsToProcess :
                         promptsToProcess[p] = ExpectedPrompt(customPrompts, f[p])

\* A text of three lines was parsed: a first line without a number, which
\* is discarded, a numbered line and a continuation line.
C13_Witness ==
    /\ Parsed
    /\ Len(LinesOf(customPrompts)) = 3
    /\ LineAt(customPrompts, 1) # <<>>
    /\ NumberedLines(customPrompts) = {2}
    /\ Len(promptsToProcess) = 1
    /\ \E n \in DOMAIN promptsToProcess[1].text : promptsToProcess[1].text[n] = NL

(***************************************************************************)
(* C14.  Whatever the order of the numbered lines in the text, the list    *)
(* the parser hands on is ordered by ascending id.                         *)
(***************************************************************************)
C14_OutputSortedById ==
    Parsed =>
        \A p, q \in DOMAIN promptsToProcess :
            p < q => promptsToProcess[p].id <= promptsToProcess[q].id

\* The text numbers its lines in descending order and the output is
\* ascending.
C14_Witness ==
    /\ Parsed
    /\ Len(promptsToProcess) = 2
    /\ parsePrompts(customPrompts)[1].index > parsePrompts(customPrompts)[2].index
    /\ promptsToProcess[1].id < promptsToProcess[2].id

DerivedStyle == trim(trace[CHOOSE n \in StyleCalls : TRUE].raw.text)

MergedStyle(derived, keywords) ==
    IF derived = <<>> THEN keywords
    ELSE IF keywords = <<>> THEN derived
    ELSE derived \o <<",", " ">> \o keywords

StyleResolved == isLoading /\ pc \notin {"style", "awaitFile", "awaitStyle"}

C16_StyleDescriptor ==
    StyleResolved =>
        effectiveImageStyle =
            IF referenceImageFile THEN MergedStyle(DerivedStyle, imageStyle)
            ELSE imageStyle

(***************************************************************************)
(* C17.  Every entry of the result list, local or published, belongs to a  *)
(* prompt whose provider calls have all returned, and carries either an    *)
(* image (base64 and url) or an error message: never both, never neither.  *)
(***************************************************************************)
HasImage(entry) == entry.base64 # "" /\ entry.url # <<>>
HasError(entry) == entry.error # <<>>
ExactlyOneOutcome(entry) ==
    /\ HasImage(entry) # HasError(entry)
    /\ HasError(entry) => entry.base64 = "" /\ entry.url = <<>>

C17_ExactlyOneOfImageAndError ==
    /\ \A p \in DOMAIN imageResults :
           /\ ExactlyOneOutcome(imageResults[p])
           /\ PrimaryCallsAt(p) # {}
           /\ \A n \in PrimaryCallsAt(p) \cup SecondaryCallsAt(p) : trace[n].done
    /\ \A p \in DOMAIN generatedImages :
           /\ p \in DOMAIN imageResults
           /\ generatedImages[p] = imageResults[p]

\* A run has placed an image and a failure for which the provider gave
\* neither bytes nor a message.
C17_Witness ==
    /\ \E p \in DOMAIN generatedImages : HasImage(generatedImages[p])
    /\ \E p \in DOMAIN generatedImages :
           /\ generatedImages[p].error = <<"Failed to generate image.">>
           /\ \A n \in PrimaryCallsAt(p) \cup SecondaryCallsAt(p) :
                  trace[n].error = <<>> /\ trace[n].base64 = ""

(***************************************************************************)
(* C18.  When the prompt synthesis answers with an empty body, the run     *)
(* ends in IDLE with an error chosen by the finish reason: the safety      *)
(* policy message for SAFETY, the recitation message for RECITATION, the   *)
(* 'stopped unexpectedly' message naming the reason for any other reason   *)
(* but STOP, and the empty-response message for STOP or no reason.  The    *)
(* message is what generatePrompts threw, unchanged.                       *)
(***************************************************************************)
EmptyBodyMessage(finishReason) ==
    CASE finishReason = "SAFETY" -> SafetyPolicyMsg
      [] finishReason = "RECITATION" -> RecitationMsg
      [] finishReason \in {"", "STOP"} -> EmptyResponseMsg
      [] OTHER -> StoppedMsg(finishReason)

\* The step in which the pending call of the run returns.
LastReturns == Len(trace') = Len(trace) /\ ~trace[Len(trace)].done /\ trace'[Len(trace')].done

C18_EmptyBodyMessages ==
    [][ (pc = "awaitPrompts" /\ LastReturns
            /\ trace'[Len(trace')].raw.kind = "response"
            /\ trace'[Len(trace')].raw.text = "empty") =>
            /\ error' = EmptyBodyMessage(trace'[Len(trace')].raw.finishReason)
            /\ trace'[Len(trace')].error = error'
            /\ appState' = IDLE
            /\ Cardinality({ EmptyBodyMessage(r) :
                                r \in {"SAFETY", "RECITATION", "STOP", "MAX_TOKENS"} }) = 4
      ]_vars

\* The synthesis stopped at the token limit with an empty body and the run
\* shows the message that names the reason.
C18_Witness ==
    /\ appState = IDLE
    /\ error = StoppedMsg("MAX_TOKENS")
    /\ \E n \in PromptCalls :
           /\ trace[n].done
           /\ trace[n].raw.kind = "response"
           /\ trace[n].raw.text = "empty"
           /\ trace[n].raw.finishReason = "MAX_TOKENS"

(***************************************************************************)
(* C19.  A run calls generatePrompts at most once.  The call fails exactly *)
(* when the provider throws or answers with an empty body, with text that  *)
(* is not JSON, or with JSON that has no prompts array; a failed call is   *)
(* the last call of its run: the run is over, the state is IDLE, the error *)
(* is set to the failure's message and no image provider is called.        *)
(***************************************************************************)
SynthesisFailure(outcome) ==
    \/ outcome.kind = "throw"
    \/ outcome.text \in {"empty", "notjson"}
    \/ ~outcome.isArray

C19_FailedState ==
    /\ Cardinality(PromptCalls) <= 1
    /\ \A n \in PromptCalls :
           trace[n].done =>
               /\ (trace[n].error # <<>>) <=> SynthesisFailure(trace[n].raw)
               /\ trace[n].error # <<>> =>
                      /\ appState = IDLE
                      /\ pc = "none"
                      /\ n = Len(trace)
                      /\ PrimaryCalls = {}
                      /\ SecondaryCalls = {}
                      /\ generatedImages = <<>>

C19_SynthesisFailureIsTerminal ==
    /\ []C19_FailedState
    /\ [][ (pc = "awaitPrompts" /\ trace'[Len(trace')].error # <<>>) =>
               /\ error' = trace'[Len(trace')].error
               /\ appState' = IDLE
         ]_vars

\* The provider answered with JSON that has no prompts array and the run
\* has ended with the error shown.
C19_Witness ==
    /\ appState = IDLE
    /\ error = NotValidJsonMsg
    /\ \E n \in PromptCalls :
           /\ trace[n].done
           /\ trace[n].raw.kind = "response"
           /\ trace[n].raw.text = "json"
           /\ ~trace[n].raw.isArray

(***************************************************************************)
(* C20.  In a script-mode run the prompt list is the list the synthesizer  *)
(* returned, in the returned order, the k-th string with id k: the ids are *)
(* 1..N.  The image calls and the results follow that list position by     *)
(* position.                                                               *)
(***************************************************************************)
C20_ScriptIdsArePositions ==
    \A n \in PromptCalls :
        (trace[n].done /\ trace[n].error = <<>>) =>
            LET returned == trace[n].raw.prompts
            IN /\ Len(promptsToProcess) = Len(returned)
               /\ \A k \in DOMAIN returned :
                      promptsToProcess[k] = [id |-> k, text |-> returned[k]]
               /\ generatedPrompts = promptsToProcess
               /\ \A c \in PrimaryCalls : trace[c].prompt = returned[trace[c].pos]
               /\ \A p \in DOMAIN generatedImages :
                      /\ generatedImages[p].id = p
                      /\ generatedImages[p].prompt = returned[p]

\* A script-mode run has finished over two different returned prompts.
C20_Witness ==
    /\ appState = DONE
    /\ Len(generatedImages) = 2
    /\ generatedImages[1].id = 1
    /\ generatedImages[2].id = 2
    /\ generatedImages[1].prompt # generatedImages[2].prompt
    /\ \E n \in PromptCalls : trace[n].raw.prompts = <<generatedImages[1].prompt,
                                                      generatedImages[2].prompt>>

(***************************************************************************)
(* C21.  When the synthesizer returns an empty prompts array the run       *)
(* aborts: the step sets the error and the state IDLE, the image stage is  *)
(* not entered and no image provider is called.                            *)
(***************************************************************************)
EmptyListReturned(n) ==
    /\ n \in PromptCalls
    /\ trace[n].done
    /\ trace[n].error = <<>>
    /\ trace[n].raw.prompts = <<>>

C21_EmptyListState ==
    \A n \in PromptCalls :
        EmptyListReturned(n) =>
            /\ appState = IDLE
            /\ pc = "none"
            /\ n = Len(trace)
            /\ PrimaryCalls = {}
            /\ SecondaryCalls = {}
            /\ generatedImages = <<>>

C21_EmptyListAborts ==
    /\ []C21_EmptyListState
    /\ [][ (pc = "awaitPrompts" /\ LastReturns
               /\ trace'[Len(trace')].error = <<>>
               /\ trace'[Len(trace')].raw.prompts = <<>>) =>
               /\ error' = NoPromptsMsg
               /\ appState' = IDLE
         ]_vars

\* The synthesizer answered {prompts: []} and the run is over with the
\* error shown.
C21_Witness ==
    /\ appState = IDLE
    /\ error = NoPromptsMsg
    /\ \E n \in PromptCalls : EmptyListReturned(n)

(***************************************************************************)
(* handleGenerate on its own: the handler is entered from any input the    *)
(* form can hold, blank text included, without the Generate button's       *)
(* disabled attribute in front of it, and the inputs stay as they are.     *)
(***************************************************************************)
InitHandler ==
    /\ script \in Scripts
    /\ imageStyle = InitialImageStyle
    /\ aspectRatio = "16:9"
    /\ promptSource \in {"script", "custom"}
    /\ customPrompts \in CustomTexts \cup { <<>> }
    /\ referenceImageFile \in BOOLEAN
    /\ STABILITY_API_KEY \in BOOLEAN
    /\ generatedPrompts = <<>>
    /\ generatedImages = <<>>
    /\ failedPrompts = <<>>
    /\ appState = IDLE
    /\ progressMessage = <<>>
    /\ error = <<>>
    /\ pc = "none"
    /\ promptsToProcess = <<>>
    /\ effectiveImageStyle = <<>>
    /\ i = 0
    /\ imageResults = <<>>
    /\ localFailedPrompts = <<>>
    /\ engine = "google"
    /\ finalPrompt = <<>>
    /\ runs = 0
    /\ edits = MaxEdits
    /\ trace = <<>>

\* handleGenerate is entered while no run is active.
enterHandleGenerate ==
    /\ pc = "none"
    /\ StartRun

NextHandler ==
    \/ enterHandleGenerate
    \/ ResolveStyle
    \/ fileToBase64Returned
    \/ analyzeImageStyleReturned
    \/ AcquirePrompts
    \/ generatePromptsReturned
    \/ NextImage
    \/ generateImageReturned
    \/ generateImageWithStabilityReturned
    \/ Finish

SpecHandler == InitHandler /\ [][NextHandler]_vars

(***************************************************************************)
(* Runs started with the Generate button from any input the form can      *)
(* hold, under the assumption that every provider call returns or fails    *)
(* and that the handler goes on after each await: the steps of a started   *)
(* run are taken eventually.  The fairness of AcquirePrompts is            *)
(* WF_vars(AcquirePrompts) written out: the step is enabled exactly when   *)
(* pc = "acquire" and every such step changes pc.                          *)
(***************************************************************************)
AwaitedStep ==
    \/ ResolveStyle
    \/ fileToBase64Returned
    \/ analyzeImageStyleReturned
    \/ generatePromptsReturned
    \/ NextImage
    \/ generateImageReturned
    \/ generateImageWithStabilityReturned
    \/ Finish

Fairness ==
    /\ WF_vars(AwaitedStep)
    /\ ([]<>(pc # "acquire") \/ []<><<AcquirePrompts>>_vars)

NextLive ==
    \/ handleGenerate
    \/ AcquirePrompts
    \/ AwaitedStep

LiveSpec == InitHandler /\ [][NextLive]_vars /\ Fairness

(***************************************************************************)
(* C22.  A run entered with a blank script (script mode) or a blank custom *)
(* text (custom mode) calls neither the prompt synthesis nor an image      *)
(* provider, never leaves GENERATING_PROMPTS for the image stage and ends  *)
(* in IDLE with an error.  When the run reaches the input validation the   *)
(* error is 'Script cannot be empty.' or 'Custom prompts field cannot be   *)
(* empty.'; a custom text without a numbered line gets the third message,  *)
(* and the three messages differ.                                          *)
(***************************************************************************)
BlankScript == promptSource = "script" /\ trim(script) = <<>>
BlankCustom == promptSource = "custom" /\ trim(customPrompts) = <<>>

C22_BlankRunState ==
    (runs >= 1 /\ (BlankScript \/ BlankCustom)) =>
        /\ PromptCalls = {}
        /\ PrimaryCalls = {}
        /\ SecondaryCalls = {}
        /\ appState \in {IDLE, GENERATING_PROMPTS}
        /\ appState = IDLE => error # <<>>

RECURSIVE PromptsWithError(_, _)
PromptsWithError(prompts, results) ==
    IF prompts = <<>> THEN <<>>
    ELSE (IF HasError(results[1]) /\ ~HasImage(results[1])
          THEN << prompts[1] >> ELSE <<>>)
             \o PromptsWithError(Tail(prompts), Tail(results))

C23_FailedListIsErrorSubsequence ==
    appState = DONE =>
        /\ Len(generatedImages) = Len(promptsToProcess)
        /\ failedPrompts = PromptsWithError(promptsToProcess, generatedImages)

\* A run over two prompts is done, the first failed and the second did not.
C23_Witness ==
    /\ appState = DONE
    /\ Len(generatedImages) = 2
    /\ HasError(generatedImages[1])
    /\ HasImage(generatedImages[2])
    /\ failedPrompts = << promptsToProcess[1] >>

(***************************************************************************)
(* C24.  At DONE the summary is 'All images generated successfully!'       *)
(* exactly when every result of the run has an image; otherwise it is      *)
(* 'Generated k of n images. ...' with k the number of results without     *)
(* error and n the number of submitted prompts, and k plus the length of   *)
(* the failed-prompt list is n.                                            *)
(***************************************************************************)
AllSucceededMsg == <<"All images generated successfully!">>
WithoutError == { p \in DOMAIN generatedImages : ~HasError(generatedImages[p]) }

C24_FinalSummary ==
    appState = DONE =>
        LET k == Cardinality(WithoutError)
            n == Len(promptsToProcess)
        IN /\ (progressMessage = AllSucceededMsg)
                  <=> (\A p \in DOMAIN generatedImages : HasImage(generatedImages[p]))
           /\ progressMessage # AllSucceededMsg =>
                  progressMessage = <<"Generated ", k, " of ", n,
                                      " images. Some prompts may have failed.">>
           /\ k + Len(failedPrompts) = n

\* A run over two prompts is done with one image: the summary is '1 of 2'.
C24_Witness ==
    /\ appState = DONE
    /\ Len(promptsToProcess) = 2
    /\ Cardinality(WithoutError) = 1
    /\ progressMessage = <<"Generated ", 1, " of ", 2,
                           " images. Some prompts may have failed.">>

(***************************************************************************)
(* C25.  The engine tag of a result with an image names the provider whose *)
(* call returned that image: google when the primary call of the prompt    *)
(* returned it, stability when the secondary call did, after the primary   *)
(* call was blocked for safety reasons.  In the scenario of the            *)
(* specification (script mode, prompts P and Q returned, primary succeeds  *)
(* for the first and is blocked for the second, secondary succeeds for the *)
(* second) the results are [{id 1, google, image}, {id 2, stability,       *)
(* image}] and the summary is the 'all succeeded' message.                 *)
(***************************************************************************)
ImageFromPrimary(p) ==
    \E n \in PrimaryCallsAt(p) :
        trace[n].done /\ trace[n].base64 # "" /\ trace[n].base64 = generatedImages[p].base64

ImageFromSecondary(p) ==
    /\ \E n \in PrimaryCallsAt(p) : trace[n].done /\ SafetyBlocked(n)
    /\ \E n \in SecondaryCallsAt(p) :
           trace[n].done /\ trace[n].base64 # "" /\ trace[n].base64 = generatedImages[p].base64

Scenario ==
    /\ appState = DONE
    /\ \E n \in PromptCalls : trace[n].done /\ trace[n].error = <<>>
                                 /\ trace[n].raw.prompts = << <<"P">>, <<"Q">> >>
    /\ \E n \in PrimaryCallsAt(1) : trace[n].base64 # ""
    /\ \E n \in PrimaryCallsAt(2) : SafetyBlocked(n)
    /\ \E n \in SecondaryCallsAt(2) : trace[n].base64 # ""

C25_EngineTag ==
    /\ \A p \in DOMAIN generatedImages :
           HasImage(generatedImages[p]) =>
               /\ generatedImages[p].engine \in {"google", "stability"}
               /\ (generatedImages[p].engine = "google") <=> ImageFromPrimary(p)
               /\ (generatedImages[p].engine = "stability") <=> ImageFromSecondary(p)
    /\ Scenario =>
           /\ Len(generatedImages) = 2
           /\ generatedImages[1].id = 1 /\ generatedImages[1].prompt = <<"P">>
           /\ generatedImages[1].engine = "google" /\ HasImage(generatedImages[1])
           /\ generatedImages[2].id = 2 /\ generatedImages[2].prompt = <<"Q">>
           /\ generatedImages[2].engine = "stability" /\ HasImage(generatedImages[2])
           /\ failedPrompts = <<>>
           /\ progressMessage = AllSucceededMsg

\* The scenario of the specification has run to its end.
C25_Witness == Scenario /\ Len(generatedImages) = 2

(***************************************************************************)
(* C26.  Within a run the published result list only grows at its end:     *)
(* every step of the run that changes it appends exactly one result, which *)
(* has its image or its error, and leaves the earlier entries as they      *)
(* were.  The local list of the handler changes in the same way.           *)
(***************************************************************************)
AppendsOne(before, after) ==
    /\ Len(after) = Len(before) + 1
    /\ SubSeq(after, 1, Len(before)) = before
    /\ ExactlyOneOutcome(after[Len(after)])

C26_AppendOnly ==
    [][ (runs' = runs) =>
            /\ generatedImages' # generatedImages
                   => AppendsOne(generatedImages, generatedImages')
            /\ imageResults' # imageResults
                   => AppendsOne(imageResults, imageResults')
      ]_vars

\* The second result of a run has been published while the run goes on.
C26_Witness ==
    /\ appState = GENERATING_IMAGES
    /\ Len(generatedImages) = 2
    /\ generatedImages[1] # generatedImages[2]

(***************************************************************************)
(* C27.  The step that issues the primary call for position p publishes    *)
(* 'Generating image p of N ...' with N the number of submitted prompts;   *)
(* it is taken when the results of the positions before p are published   *)
(* and no call is pending, and the text stays until that call returns.     *)
(***************************************************************************)
ProgressFor(p) ==
    <<"Generating image ", p, " of ", Len(promptsToProcess), " (Prompt #",
      promptsToProcess[p].id, ")...">>

C27_PendingState ==
    \A n \in PrimaryCalls :
        ~trace[n].done =>
            /\ progressMessage = ProgressFor(trace[n].pos)
            /\ Len(generatedImages) = trace[n].pos - 1

C27_ProgressBeforeAttempt ==
    /\ []C27_PendingState
    /\ [][ (PrimaryCalls' # PrimaryCalls /\ runs' = runs) =>
               LET p == trace'[Len(trace')].pos
               IN /\ p = Cardinality(PrimaryCalls) + 1
                  /\ Pending = {}
                  /\ Len(generatedImages) = p - 1
                  /\ progressMessage # ProgressFor(p)
                  /\ progressMessage' = ProgressFor(p)
         ]_vars

\* The primary call for the second of two prompts is pending under the
\* text 'Generating image 2 of 2'.
C27_Witness ==
    /\ pc = "awaitPrimary"
    /\ Len(promptsToProcess) = 2
    /\ \E n \in PrimaryCalls : ~trace[n].done /\ trace[n].pos = 2
    /\ progressMessage = ProgressFor(2)

(***************************************************************************)
(* C28.  Every started run ends: from GENERATING_PROMPTS or                *)
(* GENERATING_IMAGES the state DONE or IDLE is reached.  Nothing cancels a *)
(* run in between: while it is loading the inputs cannot change, and it    *)
(* leaves the loading states only by finishing with one result per prompt  *)
(* or by aborting the prompt acquisition with an error.                    *)
(***************************************************************************)
C28_NoCancel ==
    [][ isLoading =>
            /\ inputs' = inputs
            /\ runs' = runs
            /\ ~isLoading' =>
                   \/ /\ appState' = DONE
                      /\ appState = GENERATING_IMAGES
                      /\ Len(generatedImages) = Len(promptsToProcess)
                   \/ /\ appState' = IDLE
                      /\ appState = GENERATING_PROMPTS
                      /\ error' # <<>>
      ]_vars

C28_RunTerminates ==
    /\ isLoading ~> (appState \in {DONE, IDLE})
    /\ C28_NoCancel

\* A run over two prompts has reached DONE.
C28_Witness ==
    /\ appState = DONE
    /\ runs >= 1
    /\ Len(generatedImages) = 2
    /\ Pending = {}

(***************************************************************************)
(* C29.  No body in the parser's output starts or ends with whitespace,    *)
(* and no body contains an empty line: blank lines of the text, between    *)
(* prompts or inside one, are not appended as continuation.                *)
(***************************************************************************)
NoOuterWhitespace(body) ==
    body # <<>> => body[1] \notin WhiteSpace /\ body[Len(body)] \notin WhiteSpace

NoEmptyLine(body) ==
    \A n \in 1..(Len(body) - 1) : ~(body[n] = NL /\ body[n + 1] = NL)

C29_BodiesAreTrimmed ==
    Parsed =>
        \A p \in DOMAIN promptsToProcess :
            /\ NoOuterWhitespace(promptsToProcess[p].text)
            /\ NoEmptyLine(promptsToProcess[p].text)
            /\ \A n \in DOMAIN split(promptsToProcess[p].text) :
                   split(promptsToProcess[p].text)[n] # <<>>
                       \/ promptsToProcess[p].text = <<>>

\* The text has a blank line between a numbered line and its continuation,
\* and the body holds both lines.
C29_Witness ==
    /\ Parsed
    /\ Len(LinesOf(customPrompts)) = 3
    /\ NumberedLines(customPrompts) = {1}
    /\ LineAt(customPrompts, 2) = <<>>
    /\ LineAt(customPrompts, 3) # <<>>
    /\ Len(promptsToProcess) = 1
    /\ Len(split(promptsToProcess[1].text)) = 2

(***************************************************************************)
(* C30.  The two layers of the safety classification together: the         *)
(* secondary provider is called for a prompt exactly when the primary      *)
(* provider threw an Error whose own message contains 'sensitive words' or *)
(* 'Responsible AI practices' and STABILITY_API_KEY is configured.  A      *)
(* response without images ('The API did not return an image.') and every  *)
(* other exception ('Image generation failed.') never lead to the          *)
(* secondary provider, whatever their wording.                             *)
(***************************************************************************)
\* The primary provider threw an Error with the safety wording.
RawSafetyBlock(outcome) ==
    /\ outcome.kind = "throw"
    /\ outcome.isError
    /\ \/ includes(outcome.message, <<"sensitive words">>)
       \/ includes(outcome.message, <<"Responsible AI practices">>)

\* Layer one, for every answer of the primary provider: the message that
\* generateImage returns, and whether handleGenerate falls back on it.
C30_Classification ==
    \A outcome \in PrimaryOutcomes :
        /\ (generateImage(outcome).error = SafetyBlockedMsg) <=> RawSafetyBlock(outcome)
        /\ (outcome.kind = "response" /\ outcome.generatedImages = <<>>)
               => generateImage(outcome).error = NoImageMsg
        /\ (outcome.kind = "throw" /\ ~RawSafetyBlock(outcome))
               => generateImage(outcome).error = ImageFailedMsg
        /\ \A keySet \in BOOLEAN :
               NeedsFallback(generateImage(outcome), keySet)
                   <=> (RawSafetyBlock(outcome) /\ keySet)

\* Layer two, for every primary call of the run that has returned.
C30_FallbackIffSafetyBlock ==
    /\ C30_Classification
    /\ \A n \in PrimaryCalls :
           trace[n].done =>
               /\ (SecondaryCallsAt(trace[n].pos) # {})
                      <=> (trace[n].error = SafetyBlockedMsg /\ STABILITY_API_KEY)
               /\ trace[n].error \in {NoImageMsg, ImageFailedMsg}
                      => SecondaryCallsAt(trace[n].pos) = {}
               /\ trace[n].error \in {<<>>, SafetyBlockedMsg, NoImageMsg, ImageFailedMsg}

\* With the secondary provider configured, one run holds a primary failure
\* that is no safety block, without fallback, and a safety block with it.
C30_Witness ==
    /\ STABILITY_API_KEY
    /\ \E n \in PrimaryCalls :
           /\ trace[n].done
           /\ trace[n].error = ImageFailedMsg
           /\ SecondaryCallsAt(trace[n].pos) = {}
    /\ \E n \in PrimaryCalls :
           /\ trace[n].done
           /\ trace[n].error = SafetyBlockedMsg
           /\ SecondaryCallsAt(trace[n].pos) # {}

(***************************************************************************)
(* C31.  Every result, with an image or with an error, carries an engine   *)
(* tag.  The tag is stability exactly when the secondary provider was      *)
(* called for the prompt, also when that call failed, and google exactly   *)
(* when it was not.                                                        *)
(***************************************************************************)
C31_EngineTagOnEveryResult ==
    \A p \in DOMAIN generatedImages :
        /\ generatedImages[p].engine \in {"google", "stability"}
        /\ (generatedImages[p].engine = "stability") <=> (SecondaryCallsAt(p) # {})
        /\ (generatedImages[p].engine = "google") <=> (SecondaryCallsAt(p) = {})

\* One run holds a failed result of the secondary provider, tagged
\* stability, and a failed result of the primary provider, tagged google.
C31_Witness ==
    /\ \E p \in DOMAIN generatedImages :
           /\ HasError(generatedImages[p])
           /\ generatedImages[p].engine = "stability"
           /\ \E n \in SecondaryCallsAt(p) : trace[n].done /\ trace[n].error # <<>>
    /\ \E p \in DOMAIN generatedImages :
           /\ HasError(generatedImages[p])
           /\ generatedImages[p].engine = "google"

(***************************************************************************)
(* C32.  The parser outputs as many prompts as the text has numbered       *)
(* lines: each numbered line gives one prompt of the output, lines with    *)
(* the same id included, and prompts with equal ids stand in the order of  *)
(* their lines.                                                            *)
(***************************************************************************)
C32_DuplicatesKept ==
    Parsed =>
        /\ Len(promptsToProcess) = Cardinality(NumberedLines(customPrompts))
        /\ \E f \in [DOMAIN promptsToProcess -> NumberedLines(customPrompts)] :
               /\ \A p, q \in DOMAIN promptsToProcess : f[p] = f[q] => p = q
               /\ \A p \in DOMAIN promptsToProcess :
                      promptsToProcess[p] = ExpectedPrompt(customPrompts, f[p])
               /\ \A p, q \in DOMAIN promptsToProcess :
                      (p < q /\ promptsToProcess[p].id = promptsToProcess[q].id)
                          => f[p] < f[q]

\* Three numbered lines, the last two with the same id and different
\* bodies, the first with a greater id: the output starts with the two
\* prompts of equal id in the order of their lines.
C32_Witness ==
    /\ Parsed
    /\ NumberedLines(customPrompts) = {1, 2, 3}
    /\ Len(promptsToProcess) = 3
    /\ promptsToProcess[1] = ExpectedPrompt(customPrompts, 2)
    /\ promptsToProcess[2] = ExpectedPrompt(customPrompts, 3)
    /\ promptsToProcess[1].id = promptsToProcess[2].id
    /\ promptsToProcess[1].text # promptsToProcess[2].text
    /\ promptsToProcess[3].id > promptsToProcess[2].id

(***************************************************************************)
(* C33.  In a custom-mode run with a non-blank style descriptor the text   *)
(* sent to the primary provider, and to the secondary provider on          *)
(* fallback, is '<prompt text>, <style descriptor>'; in a script-mode run, *)
(* or with a blank descriptor, it is the prompt text.  The prompt recorded *)
(* on the result and in the failed-prompt lists is always the prompt text  *)
(* without the style.                                                      *)
(***************************************************************************)
\* A run that reaches the image loop in script mode has called the
\* synthesizer, a run in custom mode has not.
ScriptRun == PromptCalls # {}

SentText(p) ==
    IF ~ScriptRun /\ trim(effectiveImageStyle) # <<>>
    THEN promptsToProcess[p].text \o <<",", " ">> \o effectiveImageStyle
    ELSE promptsToProcess[p].text

C33_StyleOnlyInSentText ==
    /\ \A n \in PrimaryCalls \cup SecondaryCalls :
           trace[n].prompt = SentText(trace[n].pos)
    /\ \A p \in DOMAIN generatedImages :
           generatedImages[p].prompt = promptsToProcess[p].text
    /\ \A k \in DOMAIN localFailedPrompts :
           \E p \in DOMAIN promptsToProcess : localFailedPrompts[k] = promptsToProcess[p]
    /\ \A k \in DOMAIN failedPrompts :
           \E p \in DOMAIN promptsToProcess : failedPrompts[k] = promptsToProcess[p]

\* A custom-mode run with a style is done: the fallback was sent the styled
\* text and failed, and the result and the failed list hold the plain text.
C33_Witness ==
    /\ appState = DONE
    /\ ~ScriptRun
    /\ trim(effectiveImageStyle) # <<>>
    /\ \E n \in SecondaryCalls :
           /\ trace[n].done
           /\ trace[n].error # <<>>
           /\ trace[n].prompt # promptsToProcess[trace[n].pos].text
           /\ generatedImages[trace[n].pos].prompt = promptsToProcess[trace[n].pos].text
           /\ \E k \in DOMAIN failedPrompts :
                  failedPrompts[k] = promptsToProcess[trace[n].pos]

(***************************************************************************)
(* C34.  The start of a run clears the result list, the prompt list and    *)
(* the failed-prompt list, and a run that aborts leaves them empty: in     *)
(* IDLE the three lists are empty, also when the run before had reached    *)
(* DONE with results.                                                      *)
(***************************************************************************)
OutcomeCleared ==
    /\ generatedImages = <<>>
    /\ generatedPrompts = <<>>
    /\ failedPrompts = <<>>

C34_AbortLeavesNoOutcome ==
    /\ [](appState = IDLE => OutcomeCleared)
    /\ [][ /\ (runs' # runs) => OutcomeCleared'
           /\ (isLoading /\ appState' = IDLE) => (OutcomeCleared' /\ error' # <<>>)
         ]_vars

\* The second run has aborted and the lists are empty.
C34_Witness ==
    /\ runs = 2
    /\ appState = IDLE
    /\ error # <<>>
    /\ OutcomeCleared

(***************************************************************************)
(* C35.  When the synthesizer's response is valid JSON without a prompts   *)
(* array, generatePrompts fails with the 'invalid structure' message; when *)
(* the text cannot be parsed it fails with the 'not valid JSON' message;   *)
(* the two messages differ.                                                *)
(***************************************************************************)
C35_InvalidStructureReported ==
    /\ InvalidStructureMsg # NotValidJsonMsg
    /\ \A n \in PromptCalls :
           (trace[n].done /\ trace[n].raw.kind = "response") =>
               /\ (trace[n].raw.text = "json" /\ ~trace[n].raw.isArray)
                      => trace[n].error = InvalidStructureMsg
               /\ trace[n].raw.text = "notjson"
                      => trace[n].error = NotValidJsonMsg

====
